---- MODULE Spec2Model ----
(***************************************************************************)
(* Model of backend/main.py, the Speech Segmentation API: a FastAPI        *)
(* application that stores uploads under UPLOAD_DIR, answers a fixed list  *)
(* of speech segments, cuts clips out of an upload with pydub and deletes  *)
(* files by a filename glob.                                               *)
(*                                                                         *)
(* Times are integers in microseconds (a request's float seconds times     *)
(* 10^6); pydub positions are milliseconds and frames.  File names and     *)
(* file ids are sequences of one-character strings, so that globbing can   *)
(* be computed character by character.                                     *)
(***************************************************************************)
EXTENDS Integers, Sequences, FiniteSets, Bags, TLC

VARIABLES
    fs,         \* UPLOAD_DIR: file name -> content, for the files that exist
    uploads,    \* the "success" answers process_audio has given
    cleaned,    \* the issued file ids cleanup_files has been called with
    inflight,   \* bag of the FileResponse objects returned and not yet sent
    last,       \* the answer of the handler that ran last
    xin,        \* an extraction input  (specification SpecExtract)
    xout        \* the clips extract_audio_segment made of xin

vars == <<fs, uploads, cleaned, inflight, last, xin, xout>>

-----------------------------------------------------------------------------
\* Bounds of the model.
MaxUploads == 2      \* process_audio calls in one behaviour
MaxInflight == 2     \* FileResponse objects pending at once
MaxGridSteps == 52   \* SpecExtract: the times of the requests, see Grid

-----------------------------------------------------------------------------
\* Arithmetic as Python computes it.

\* int(x) of a float: truncation toward zero.
Trunc(n, d) == IF n >= 0 THEN n \div d ELSE -((-n) \div d)

Abs(n) == IF n < 0 THEN -n ELSE n

Min(a, b) == IF a <= b THEN a ELSE b

Max(a, b) == IF a >= b THEN a ELSE b

\* round(n / d) of Python 3, n >= 0: to nearest, a tie to the even integer.
RoundHalfEven(n, d) ==
    LET q == n \div d
        r == n % d
    IN  IF 2 * r < d THEN q
        ELSE IF 2 * r > d THEN q + 1
        ELSE IF q % 2 = 0 THEN q ELSE q + 1

\* len(b[i:j]) of a Python sequence of n items, negative indexes from the end.
PyIndex(n, i) == IF i < 0 THEN Max(n + i, 0) ELSE Min(i, n)

PySliceLen(n, i, j) == Max(PyIndex(n, j) - PyIndex(n, i), 0)

-----------------------------------------------------------------------------
\* Audio.  frames / rate seconds of sound; runs are the intervals of speech
\* in it (microseconds); ok is whether a decoder can read it.
UsPerSecond == 1000000

Audio(frames, rate, runs, ok) ==
    [frames |-> frames, rate |-> rate, runs |-> runs, ok |-> ok]

\* An upload that is no audio file: no decoder reads it.
NoAudio == Audio(0, 1, <<>>, FALSE)

Silence10s == Audio(80000, 8000, <<>>, TRUE)

Bursts30s ==
    Audio(240000, 8000,
          << <<1000000, 4000000>>, <<4200000, 9800000>>,
             <<15000000, 20000000>> >>, TRUE)

\* The audio of the sources detection is asked about.
Audios == {Silence10s, Bursts30s}

\* What a caller uploads: process_audio stores any file.
Uploadable == Audios \cup {NoAudio}

-----------------------------------------------------------------------------
\* File names.

Chars(name) == {name[i] : i \in 1..Len(name)}

\* pathlib's PurePath(name).suffix: from the last dot on, when that dot is
\* neither the first nor the last character of the name.
LastDot(name) ==
    IF "." \in Chars(name)
    THEN CHOOSE i \in 1..Len(name) :
            /\ name[i] = "."
            /\ \A j \in (i + 1)..Len(name) : name[j] # "."
    ELSE 0

Suffix(name) ==
    LET i == LastDot(name)
    IN  IF 1 < i /\ i < Len(name) THEN SubSeq(name, i, Len(name)) ELSE <<>>

\* fnmatch of one path component: "*" matches any run of characters.
RECURSIVE Match(_, _)
Match(pat, name) ==
    IF pat = <<>> THEN name = <<>>
    ELSE IF Head(pat) = "*"
         THEN Match(Tail(pat), name) \/ (name # <<>> /\ Match(pat, Tail(name)))
         ELSE name # <<>> /\ Head(name) = Head(pat) /\ Match(Tail(pat), Tail(name))

\* UPLOAD_DIR.glob(pat) over the directory dir.
Glob(dir, pat) == {n \in DOMAIN dir : Match(pat, n)}

\* The values uuid.uuid4() gives: strings of one length over one alphabet,
\* here "ab", "ba", "bb", ... , as many as there are uploads.
Hex == <<"a", "b">>

Uuid(n) == <<Hex[((n \div 2) % 2) + 1], Hex[(n % 2) + 1]>>

UUIDs == {Uuid(n) : n \in 1..MaxUploads}

\* The file_id strings a caller passes: the ids it was given, and the first
\* character of one.
CallerIds == UUIDs \cup {<<"a">>}

\* The names of uploaded files: with an extension, without one, a dot-file.
Filenames == {<<"x", ".", "m">>, <<"x">>, <<".", "m">>}

\* segment_name, "segment" by default.
SegmentNames == {<<"s">>}

Mp3 == <<".", "m", "p", "3">>

-----------------------------------------------------------------------------
\* detect_speech_segments: the same four segments for every path, times in
\* microseconds.
Segment(id, startTime, endTime, duration, name) ==
    [id |-> id, startTime |-> startTime, endTime |-> endTime,
     duration |-> duration, name |-> name]

\* The first segment named after the file it was detected in.
detect_speech_segments_by_path(audio_path) ==
    << Segment("1", 500000, 5200000, 4700000, audio_path),
       Segment("2", 6800000, 15300000, 8500000, "Speech Segment 2"),
       Segment("3", 16100000, 22700000, 6600000, "Speech Segment 3"),
       Segment("4", 24200000, 30500000, 6300000, "Speech Segment 4") >>

\* The second segment starting at 5.0 s, inside the first.
detect_speech_segments_overlap(audio_path) ==
    << Segment("1", 500000, 5200000, 4700000, "Speech Segment 1"),
       Segment("2", 5000000, 15300000, 10300000, "Speech Segment 2"),
       Segment("3", 16100000, 22700000, 6600000, "Speech Segment 3"),
       Segment("4", 24200000, 30500000, 6300000, "Speech Segment 4") >>

detect_speech_segments(audio_path) ==
    << Segment("1", 500000, 5200000, 4700000, "Speech Segment 1"),
       Segment("2", 6800000, 15300000, 8500000, "Speech Segment 2"),
       Segment("3", 16100000, 22700000, 6600000, "Speech Segment 3"),
       Segment("4", 24200000, 30500000, 6300000, "Speech Segment 4") >>

-----------------------------------------------------------------------------
\* extract_audio_segment, with pydub's AudioSegment as it computes.

MsPerSecond == 1000

\* The whole numbers k of milliseconds, among those the model passes
\* (0 .. 1100 and the times of Ranges), whose float k / 1000 times 1000
\* rounds just below k: 1.001 * 1000 = 1000.9999999999999.
RoundsBelow == {1001, 1003, 1005, 1007, 1009, 1011, 1013, 1015, 1017, 1019,
                1021, 1023}

\* int(start) * 1000: the seconds truncated before the multiplication.
IntMsOfWholeSeconds(t) == Trunc(t, UsPerSecond) * MsPerSecond

\* int(t * 1000) for the float of t microseconds: the float product,
\* truncated toward zero.
IntMs(t) ==
    LET m == Abs(t)
        k == m \div MsPerSecond
        sign == IF t < 0 THEN -1 ELSE 1
    IN  IF m % MsPerSecond = 0 /\ k \in RoundsBelow
        THEN sign * (k - 1)
        ELSE sign * k

\* len(audio): round(1000 * frame_count / frame_rate), in milliseconds.
AudioLenMs(a) == RoundHalfEven(1000 * a.frames, a.rate)

\* AudioSegment._parse_position: a negative position counts from the end,
\* then int(frame_count(ms = val)) = int(val * (frame_rate / 1000.0)).
ParsePosition(a, val) ==
    LET v == IF val < 0 THEN AudioLenMs(a) - Abs(val) ELSE val
    IN  Trunc(v * a.rate, 1000)

Raised == [ok |-> FALSE, frames |-> 0]

\* AudioSegment.__getitem__(slice(start_ms, end_ms)): both ends clamped to
\* len(audio), the frames between them, and silence appended for the frames
\* the data falls short of (TooManyMissingFrames beyond 2 ms of them).
GetSlice(a, start_ms, end_ms) ==
    LET start == Min(start_ms, AudioLenMs(a))
        end == Min(end_ms, AudioLenMs(a))
        ps == ParsePosition(a, start)
        pe == ParsePosition(a, end)
        have == PySliceLen(a.frames, ps, pe)
        missing == (pe - ps) - have
    IN  IF missing # 0 /\ missing * 1000 > 2 * a.rate
        THEN Raised
        ELSE [ok |-> TRUE,
              frames |-> IF missing > 0 /\ have > 0 THEN have + missing ELSE have]

\* extract_audio_segment(input, output, start, end) on the audio of input:
\* the frames of the clip exported to output, or an exception.
extract_audio_segment(audio, start, end) ==
    IF ~audio.ok THEN Raised
    ELSE GetSlice(audio, IntMs(start), IntMs(end))

-----------------------------------------------------------------------------
\* The handlers.  Each is an "async def" that never awaits, so its body runs
\* on the event loop without another handler in between; the FileResponse it
\* returns is sent afterwards, while other handlers run.

File(owner, audio) == [owner |-> owner, audio |-> audio]

Answer(op, file_id, status, start, end, src, clip) ==
    [op |-> op, file_id |-> file_id, status |-> status,
     start |-> start, end |-> end, src |-> src, clip |-> clip]

Plain(op, status) == Answer(op, <<>>, status, 0, 0, NoAudio, -1)

Cleaned(file_id) == Answer("cleanup_files", file_id, 200, 0, 0, NoAudio, -1)

Response(op, path, snap) == [op |-> op, path |-> path, snap |-> snap]

Put(dir, name, content) ==
    [n \in DOMAIN dir \cup {name} |-> IF n = name THEN content ELSE dir[n]]

Unlink(dir, names) == [n \in DOMAIN dir \ names |-> dir[n]]

\* The start_time, end_time pairs of the requests: a detected segment, a
\* range ending after every source, an empty range, a start before the
\* start of every source.
Ranges ==
    { <<500000, 5200000>>, <<0, 40000000>>, <<5000000, 5000000>>,
      <<-40000000, 2000000>> }

root ==
    /\ last' = Plain("root", 200)
    /\ UNCHANGED <<fs, uploads, cleaned, inflight, xin, xout>>

process_audio(filename, audio) ==
    /\ Cardinality(uploads) < MaxUploads
    /\ \E file_id \in UUIDs \ {u.file_id : u \in uploads} :
         LET temp_file_path == file_id \o Suffix(filename)
         IN  /\ fs' = Put(fs, temp_file_path, File(file_id, audio))
             /\ uploads' = uploads \cup
                    {[file_id |-> file_id, path |-> temp_file_path,
                      audio |-> audio,
                      segments |-> detect_speech_segments(temp_file_path)]}
             /\ last' = Plain("process_audio", 200)
    /\ UNCHANGED <<cleaned, inflight, xin, xout>>

get_audio(file_id) ==
    LET audio_files == Glob(fs, file_id \o <<".", "*">>)
    IN  /\ IF audio_files = {}
           THEN /\ last' = Plain("get_audio", 404)
                /\ UNCHANGED inflight
           ELSE /\ BagCardinality(inflight) < MaxInflight
                /\ \E f \in audio_files :
                     inflight' = inflight (+) SetToBag({Response("get_audio", f, fs[f])})
                /\ last' = Plain("get_audio", 200)
        /\ UNCHANGED <<fs, uploads, cleaned, xin, xout>>

extract_segment(file_id, start_time, end_time, segment_name) ==
    LET audio_files == Glob(fs, file_id \o <<".", "*">>)
        output_path == file_id \o <<"_">> \o segment_name \o Mp3
    IN  /\ IF audio_files = {}
           THEN /\ last' = Plain("extract_segment", 404)
                /\ UNCHANGED <<fs, inflight>>
           ELSE \E audio_path \in audio_files :
                LET r == extract_audio_segment(fs[audio_path].audio,
                                               start_time, end_time)
                IN
                  IF r.ok
                  THEN LET clip == File(fs[audio_path].owner,
                                        Audio(r.frames, fs[audio_path].audio.rate,
                                              <<>>, TRUE))
                       IN  /\ BagCardinality(inflight) < MaxInflight
                           /\ fs' = Put(fs, output_path, clip)
                           /\ inflight' = inflight (+) SetToBag(
                                  {Response("extract_segment", output_path, clip)})
                           /\ last' = Answer("extract_segment", <<>>, 200,
                                             start_time, end_time,
                                             fs[audio_path].audio, r.frames)
                  ELSE /\ last' = Answer("extract_segment", <<>>, 500,
                                         start_time, end_time,
                                         fs[audio_path].audio, -1)
                       /\ UNCHANGED <<fs, inflight>>
        /\ UNCHANGED <<uploads, cleaned, xin, xout>>

cleanup_files(file_id) ==
    /\ fs' = Unlink(fs, Glob(fs, file_id \o <<"*">>))
    /\ cleaned' = cleaned \cup ({file_id} \cap {u.file_id : u \in uploads})
    /\ last' = Cleaned(file_id)
    /\ UNCHANGED <<uploads, inflight, xin, xout>>

\* Starlette sends a returned FileResponse: it stats and reads the path then,
\* and fails when the file is gone.
send_file(r) ==
    /\ BagIn(r, inflight)
    /\ inflight' = inflight (-) SetToBag({r})
    /\ last' = Plain("send_file", IF r.path \in DOMAIN fs THEN 200 ELSE 500)
    /\ UNCHANGED <<fs, uploads, cleaned, xin, xout>>

NoInput == [audio |-> NoAudio, start |-> 0, end |-> 0]

Init ==
    /\ fs = <<>>
    /\ uploads = {}
    /\ cleaned = {}
    /\ inflight = EmptyBag
    /\ last = Plain("none", 200)
    /\ xin = NoInput
    /\ xout = {}

Next ==
    \/ root
    \/ \E filename \in Filenames, audio \in Uploadable : process_audio(filename, audio)
    \/ \E file_id \in CallerIds : get_audio(file_id)
    \/ \E file_id \in CallerIds, r \in Ranges, segment_name \in SegmentNames :
         extract_segment(file_id, r[1], r[2], segment_name)
    \/ \E file_id \in CallerIds : cleanup_files(file_id)
    \/ \E r \in BagToSet(inflight) : send_file(r)

Spec == Init /\ [][Next]_vars

\* The same server in its normal flow: the uploads are audio files named
\* with an extension, and the extractions ask for a detected segment.
DetectedRanges == {<<500000, 5200000>>}

AudioFilenames == {<<"x", ".", "m">>}

NextDetect ==
    \/ root
    \/ \E filename \in AudioFilenames, audio \in Audios :
         process_audio(filename, audio)
    \/ \E file_id \in CallerIds : get_audio(file_id)
    \/ \E file_id \in CallerIds, r \in DetectedRanges, segment_name \in SegmentNames :
         extract_segment(file_id, r[1], r[2], segment_name)
    \/ \E file_id \in CallerIds : cleanup_files(file_id)
    \/ \E r \in BagToSet(inflight) : send_file(r)

SpecDetect == Init /\ [][NextDetect]_vars

-----------------------------------------------------------------------------
\* extract_audio_segment alone, over a grid of ranges on sources of about one
\* second: 1.025 s at 8000 Hz, 1.0255 s at 8000 Hz (its length in
\* milliseconds rounds up) and 1.02467 s at 1500 Hz (1.5 frames a
\* millisecond).
ShortAudios ==
    { Audio(8200, 8000, <<>>, TRUE), Audio(8204, 8000, <<>>, TRUE),
      Audio(1537, 1500, <<>>, TRUE) }

\* 0 s and 1.0000 s, 1.0005 s, ... : every half millisecond.
Grid == {0} \cup {1000000 + 500 * i : i \in 0..MaxGridSteps}

InitExtract ==
    /\ fs = <<>>
    /\ uploads = {}
    /\ cleaned = {}
    /\ inflight = EmptyBag
    /\ last = Plain("none", 200)
    /\ xin \in [audio : ShortAudios, start : Grid, end : Grid]
    /\ xout = {}

apply_extract_audio_segment ==
    /\ xout = {}
    /\ xout' = {extract_audio_segment(xin.audio, xin.start, xin.end)}
    /\ UNCHANGED <<fs, uploads, cleaned, inflight, last, xin>>

NextExtract == apply_extract_audio_segment

SpecExtract == InitExtract /\ [][NextExtract]_vars

-----------------------------------------------------------------------------
\* The claims.

\* Times against frame counts: t microseconds are t * rate / 10^6 frames.
\* Both sides are divided by the greatest common divisor of rate and 10^6.
RECURSIVE GCD(_, _)
GCD(a, b) == IF b = 0 THEN a ELSE GCD(b, a % b)

\* t microseconds, in units of 1 / (10^6 / gcd) of a frame of a.
TimeUnits(a, t) == t * (a.rate \div GCD(a.rate, UsPerSecond))

\* n frames of a, in the same units.
FrameUnits(a, n) == n * (UsPerSecond \div GCD(a.rate, UsPerSecond))

\* C1: extraction fails, and produces no clip, for every request whose
\* endTime <= startTime, whose startTime < 0, or whose endTime exceeds the
\* duration of the source by more than one sample.
InvalidRange(a, start, end) ==
    \/ end <= start
    \/ start < 0
    \/ TimeUnits(a, end) > FrameUnits(a, a.frames + 1)

C1_InvalidRangeRejected ==
    (/\ last.op = "extract_segment"
     /\ last.status # 404
     /\ InvalidRange(last.src, last.start, last.end))
    => (last.status # 200 /\ last.clip = -1)

\* C2: the stored upload a response in flight is serving is neither deleted
\* nor overwritten, and no two requests in flight have written the same file.
C2_NoSharedMutableState ==
    /\ \A r \in BagToSet(inflight) :
         r.op = "get_audio" => (r.path \in DOMAIN fs /\ fs[r.path] = r.snap)
    /\ \A r1, r2 \in BagToSet(inflight) :
         (r1.op = "extract_segment" /\ r2.op = "extract_segment")
         => /\ CopiesIn(r1, inflight) = 1
            /\ (r1 # r2 => r1.path # r2.path)

\* C3: every segment detection returns ends within the duration of its source.
C3_SegmentsWithinSource ==
    \A u \in uploads : \A i \in 1..Len(u.segments) :
        TimeUnits(u.audio, u.segments[i].endTime) <= FrameUnits(u.audio, u.audio.frames)

\* C4: detection on the all-silence 10-second source returns no segment.
C4_SilenceYieldsNoSegment ==
    \A u \in uploads : u.audio = Silence10s => u.segments = <<>>

\* C5: two speech runs of the source less than minimumGapDuration (0.3 s)
\* apart are reported as one segment covering both.
C5_GapMerge ==
    \A u \in uploads : \A i \in 1..(Len(u.audio.runs) - 1) :
        u.audio.runs[i + 1][1] - u.audio.runs[i][2] < 300000
        => \E k \in 1..Len(u.segments) :
              /\ u.segments[k].startTime <= u.audio.runs[i][1]
              /\ u.audio.runs[i + 1][2] <= u.segments[k].endTime

\* C6: adjacent segments of a detection do not overlap and start in
\* strictly increasing order.
C6_OrderedNonOverlapping ==
    \A u \in uploads : \A i \in 1..(Len(u.segments) - 1) :
        /\ u.segments[i].endTime <= u.segments[i + 1].startTime
        /\ u.segments[i].startTime < u.segments[i + 1].startTime

C6_Witness ==
    \E u \in uploads : Len(u.segments) >= 2 /\ u.path \in DOMAIN fs

\* C7: two detections on identical audio return identical segment
\* sequences, whatever ran in between.
C7_Deterministic ==
    \A u1, u2 \in uploads : u1.audio = u2.audio => u1.segments = u2.segments

C7_Witness ==
    \E u1, u2 \in uploads :
        /\ u1.file_id # u2.file_id
        /\ u1.path # u2.path
        /\ u1.audio = u2.audio
        /\ u1.file_id \in cleaned
        /\ \E n \in DOMAIN fs : fs[n].owner = u2.file_id /\ n # u2.path

\* C8: for every range 0 <= s < e <= duration of the source, the clip has
\* within one frame period (10 ms, the hop of the analysis frames) of
\* (e - s) * rate frames.
ValidRange(a, start, end) ==
    /\ 0 <= start
    /\ start < end
    /\ TimeUnits(a, end) <= FrameUnits(a, a.frames)

C8_ClipLength ==
    \A r \in xout :
        ValidRange(xin.audio, xin.start, xin.end)
        => /\ r.ok
           /\ Abs(FrameUnits(xin.audio, r.frames)
                   - TimeUnits(xin.audio, xin.end - xin.start))
                <= TimeUnits(xin.audio, 10000)

C8_Witness ==
    /\ ValidRange(xin.audio, xin.start, xin.end)
    /\ xin.start \div MsPerSecond \in RoundsBelow
    /\ xin.end - xin.start > 20000
    /\ \E r \in xout : r.ok /\ r.frames > 0

\* C9: an accepted upload is found by its file_id until cleanup_files is
\* called with that file_id.
C9_UploadStaysResolvable ==
    \A u \in uploads :
        u.file_id \notin cleaned => Glob(fs, u.file_id \o <<".", "*">>) # {}

\* C10: cleanup_files(file_id) deletes the files created for file_id, all of
\* them and no other, changes no other file, and leaves nothing for
\* get_audio(file_id) or extract_segment(file_id, ...) to find.
C10_CleanupExact ==
    [][last'.op = "cleanup_files"
       => /\ DOMAIN fs' = {n \in DOMAIN fs : fs[n].owner # last'.file_id}
          /\ \A n \in DOMAIN fs' : fs'[n] = fs[n]
          /\ Glob(fs', last'.file_id \o <<".", "*">>) = {}]_vars

=============================================================================
